---- MODULE Spec2Model ----
(***************************************************************************)
(* A model of AUT_PROMPT.py: the Streamlit script that extracts text from  *)
(* uploaded files, composes a prompt, calls the Gemini API and renders the *)
(* answer as a Word document.                                              *)
(*                                                                         *)
(* Python strings are sequences of tokens.  A token is one character of    *)
(* user text (" ", "\n" and letters) or one fixed phrase of a literal of   *)
(* the program.  Python's None and a str share a variable, so such a value *)
(* is a record [none, s]: None is [none |-> TRUE, s |-> <<>>].             *)
(***************************************************************************)
EXTENDS Integers, Sequences, FiniteSets, TLC

VARIABLES
  api_key,                \* API_KEY (line 28)
  topic,                  \* st.text_input "Tópico Principal" (line 274)
  num_sections,           \* st.session_state.num_sections (lines 276-282)
  section_fields,         \* the text_input of each section title (line 286)
  detailed_instructions,  \* st.text_area (line 290)
  uploaded_files,         \* st.file_uploader (line 298)
  combined_file_content,  \* the text the upload loop builds (lines 303-310)
  generated_text,         \* st.session_state.generated_text
  prompt_used,            \* st.session_state.prompt_used
  word_buffer,            \* st.session_state.word_buffer
  pc,                     \* where the current script run stands
  button,                 \* whether this run was started by generate_button
  invoked,                \* calls of call_gemini since the session was last reset
  requests,               \* the requests posted since the session was last reset
  transport               \* what the request of this run came back with

vars == <<api_key, topic, num_sections, section_fields, detailed_instructions,
          uploaded_files, combined_file_content, generated_text, prompt_used,
          word_buffer, pc, button, invoked, requests, transport>>

widgets == <<topic, num_sections, section_fields, detailed_instructions,
             uploaded_files, combined_file_content>>

session == <<generated_text, prompt_used, word_buffer>>

----------------------------------------------------------------------------
(* Bounds of the model.                                                    *)

MaxText == 6
MaxSections == 3
MaxFiles == 3
MaxParts == 2

----------------------------------------------------------------------------
(* Python values and the str methods the program uses.                     *)

None == [none |-> TRUE, s |-> <<>>]

Str(s) == [none |-> FALSE, s |-> s]

\* Python truthiness of a value that is None or a str.
Truthy(v) == ~v.none /\ v.s # <<>>

\* str.isspace of one character.
IsSpace(c) == c \in {" ", "\n", "\t"}

\* s.startswith(prefix)
startswith(s, prefix) ==
  /\ Len(s) >= Len(prefix)
  /\ SubSeq(s, 1, Len(prefix)) = prefix

\* Whether sub occurs in s (Python's `sub in s`).
Contains(s, sub) ==
  \E i \in 1..(Len(s) - Len(sub) + 1) : SubSeq(s, i, i + Len(sub) - 1) = sub

\* s.strip()
strip(s) ==
  LET keep == {i \in 1..Len(s) : ~IsSpace(s[i])}
  IN  IF keep = {} THEN <<>>
      ELSE LET lo == CHOOSE i \in keep : \A j \in keep : i <= j
               hi == CHOOSE i \in keep : \A j \in keep : j <= i
           IN  SubSeq(s, lo, hi)

\* s.split(sep): the leftmost occurrence of sep is cut first.
RECURSIVE split(_, _)
split(s, sep) ==
  LET hits == {i \in 1..(Len(s) - Len(sep) + 1) :
                 SubSeq(s, i, i + Len(sep) - 1) = sep}
  IN  IF hits = {} THEN <<s>>
      ELSE LET i == CHOOSE h \in hits : \A g \in hits : h <= g
           IN  <<SubSeq(s, 1, i - 1)>> \o split(SubSeq(s, i + Len(sep), Len(s)), sep)

\* sep.join(items)
RECURSIVE join(_, _)
join(sep, items) ==
  IF items = <<>> THEN <<>>
  ELSE IF Len(items) = 1 THEN items[1]
  ELSE items[1] \o sep \o join(sep, Tail(items))

\* The sequences over S of length at most n.
SeqUpTo(S, n) == UNION {[1..k -> S] : k \in 0..n}

----------------------------------------------------------------------------
(* create_word_doc (lines 214-234).  The document is the sequence of its   *)
(* paragraphs; the buffer returned is never None.                          *)

NoBuffer == [none |-> TRUE, paragraphs |-> <<>>]

\* A faulty variant (C8): the text is cut at every newline.
create_word_doc_split_single(text) ==
  LET paragraphs == split(text, <<"\n">>)
      kept == SelectSeq([i \in 1..Len(paragraphs) |-> strip(paragraphs[i])],
                        LAMBDA p : p # <<>>)
  IN  [none |-> FALSE, paragraphs |-> kept]

create_word_doc(text) ==
  LET paragraphs == split(text, <<"\n", "\n">>)
      kept == SelectSeq([i \in 1..Len(paragraphs) |-> strip(paragraphs[i])],
                        LAMBDA p : p # <<>>)
  IN  [none |-> FALSE, paragraphs |-> kept]

----------------------------------------------------------------------------
(* call_gemini (lines 138-211).                                            *)
(*                                                                         *)
(* The outcome of requests.post is the environment's choice.  A response   *)
(* body is the parsed JSON object, as far as call_gemini reads it:         *)
(*   candidates  the list under 'candidates' (<<>> when the key is absent  *)
(*               or the list is empty: line 173 treats both alike);        *)
(*   error       the object under 'error', if the key is there.            *)
(* A candidate is read for its content parts (<<>> when 'content' or       *)
(* 'parts' is absent or empty) and its finishReason; a part for its text.  *)
(* The st.error/st.warning messages are not modelled.                      *)

RequestTimeout == 300

Temperature10 == 7

MaxOutputTokens == 8192

NoTextFound == <<"Nenhum texto encontrado na resposta.">>

ErroMarker == <<"Erro", ":">>

UnexpectedStructure == <<"Estrutura de resposta inesperada (candidato sem partes).">>

NoValidCandidate == <<"Nenhum candidato válido retornado pela API.">>

UnknownApiError == <<"Erro", " ", "desconhecido retornado pela API.">>

InterruptedMessage(finish_reason) ==
  <<"Erro", ":", " ", "Geração interrompida pela API. Razão: ">>
    \o finish_reason \o <<".">>

ApiErrorMessage(error_msg) == <<"Erro", " ", "da API", ":", " ">> \o error_msg

STOP == <<"STOP">>

\* The values of candidate.get('finishReason').
FinishReasons ==
  {None, Str(<<>>), Str(STOP), Str(<<"SAFETY">>), Str(<<"MAX_TOKENS">>)}

PartTexts == {<<>>, <<"Olá">>, <<"Erro", ":", " ", "x">>}

\* A part with a 'text' key, or without one (has_text = FALSE).
Parts ==
  {[has_text |-> TRUE, text |-> t] : t \in PartTexts}
    \cup {[has_text |-> FALSE, text |-> <<>>]}

\* The parts after the first, which call_gemini never reads.
OtherParts ==
  {[has_text |-> TRUE, text |-> <<"more">>], [has_text |-> FALSE, text |-> <<>>]}

PartLists ==
  {<<>>} \cup {<<p>> \o rest : p \in Parts, rest \in SeqUpTo(OtherParts, MaxParts - 1)}

Candidates == [parts : PartLists, finishReason : FinishReasons]

\* The candidates after the first, which call_gemini never reads.
OtherCandidates ==
  {[parts |-> <<[has_text |-> TRUE, text |-> <<"other">>]>>, finishReason |-> Str(STOP)],
   [parts |-> <<>>, finishReason |-> Str(<<"SAFETY">>)]}

CandidateLists ==
  {<<>>} \cup {<<c>> : c \in Candidates}
         \cup {<<c, d>> : c \in Candidates, d \in OtherCandidates}

NoError == [present |-> FALSE, has_message |-> FALSE, message |-> <<>>]

Errors ==
  {NoError,
   [present |-> TRUE, has_message |-> FALSE, message |-> <<>>],
   [present |-> TRUE, has_message |-> TRUE, message |-> <<"quota">>]}

Responses == [candidates : CandidateLists, error : Errors]

EmptyResponse == [candidates |-> <<>>, error |-> NoError]

\* No request was made.
NoTransport == [kind |-> "none", json |-> EmptyResponse]

\* requests.post timed out, failed to connect, or raise_for_status raised
\* for an HTTP error status; or a 2xx response arrived with a JSON body.
Transports ==
  {[kind |-> k, json |-> EmptyResponse] : k \in {"timeout", "connection_error", "http_error"}}
    \cup {[kind |-> "ok", json |-> j] : j \in Responses}

Request(prompt, api_key_) ==
  [key |-> api_key_.s, text |-> prompt.s, temperature10 |-> Temperature10,
   maxOutputTokens |-> MaxOutputTokens, timeout |-> RequestTimeout]

\* A faulty variant (C3): the last candidate decides, not the first.
interpret_last_candidate(result_json) ==
  IF result_json.candidates # <<>> THEN
    LET candidate == result_json.candidates[Len(result_json.candidates)]
        parts == candidate.parts
        finish_reason == candidate.finishReason
    IN  IF parts # <<>> THEN
          IF parts[1].has_text THEN Str(parts[1].text) ELSE Str(NoTextFound)
        ELSE IF Truthy(finish_reason) /\ finish_reason.s # STOP THEN
          Str(InterruptedMessage(finish_reason.s))
        ELSE Str(UnexpectedStructure)
  ELSE IF result_json.error.present THEN
    LET error_msg == IF result_json.error.has_message
                     THEN result_json.error.message ELSE UnknownApiError
    IN  Str(ApiErrorMessage(error_msg))
  ELSE Str(NoValidCandidate)

\* Lines 173-196: the decision on the parsed body.
interpret(result_json) ==
  IF result_json.candidates # <<>> THEN
    LET candidate == result_json.candidates[1]
        parts == candidate.parts
        finish_reason == candidate.finishReason
    IN  IF parts # <<>> THEN
          IF parts[1].has_text THEN Str(parts[1].text) ELSE Str(NoTextFound)
        ELSE IF Truthy(finish_reason) /\ finish_reason.s # STOP THEN
          Str(InterruptedMessage(finish_reason.s))
        ELSE Str(UnexpectedStructure)
  ELSE IF result_json.error.present THEN
    LET error_msg == IF result_json.error.has_message
                     THEN result_json.error.message ELSE UnknownApiError
    IN  Str(ApiErrorMessage(error_msg))
  ELSE Str(NoValidCandidate)

\* A faulty variant (C4): the credential is not looked at.
call_gemini_no_key_check(prompt, api_key_, outcome) ==
  [result |-> IF outcome.kind = "ok" THEN interpret(outcome.json) ELSE None,
   posted |-> <<Request(prompt, api_key_)>>]

\* A faulty variant (C5): a timeout is retried once and then reported as text.
call_gemini_retry(prompt, api_key_, outcome) ==
  IF ~Truthy(api_key_) THEN [result |-> None, posted |-> <<>>]
  ELSE IF outcome.kind = "timeout" THEN
    [result |-> Str(ErroMarker \o <<" ", "timeout">>),
     posted |-> <<Request(prompt, api_key_), Request(prompt, api_key_)>>]
  ELSE [result |-> IF outcome.kind = "ok" THEN interpret(outcome.json) ELSE None,
        posted |-> <<Request(prompt, api_key_)>>]

\* call_gemini(prompt, api_key) when requests.post, if reached, comes back
\* with outcome: the value returned and the requests posted.
call_gemini(prompt, api_key_, outcome) ==
  IF ~Truthy(api_key_) THEN [result |-> None, posted |-> <<>>]
  ELSE [result |-> IF outcome.kind = "ok" THEN interpret(outcome.json) ELSE None,
        posted |-> <<Request(prompt, api_key_)>>]

----------------------------------------------------------------------------
(* generate_prompt (lines 81-135).                                         *)

Indent == <<" ", " ", " ", " ">>

NL == <<"\n">>

\* The leading run of blanks and tabs of a line.
RECURSIVE LeadingBlanks(_)
LeadingBlanks(line) ==
  IF line # <<>> /\ Head(line) \in {" ", "\t"}
  THEN <<Head(line)>> \o LeadingBlanks(Tail(line))
  ELSE <<>>

\* The longest common prefix of two strings.
RECURSIVE CommonPrefix(_, _)
CommonPrefix(a, b) ==
  IF a # <<>> /\ b # <<>> /\ Head(a) = Head(b)
  THEN <<Head(a)>> \o CommonPrefix(Tail(a), Tail(b))
  ELSE <<>>

RECURSIVE Margin(_)
Margin(indents) ==
  IF Len(indents) = 1 THEN indents[1]
  ELSE CommonPrefix(indents[1], Margin(Tail(indents)))

\* textwrap.dedent: lines made of blanks and tabs only become empty, and
\* the leading whitespace common to all other lines is removed.
dedent(text) ==
  LET raw == split(text, NL)
      lines == [i \in 1..Len(raw) |->
                  IF LeadingBlanks(raw[i]) = raw[i] THEN <<>> ELSE raw[i]]
      inked == SelectSeq(lines, LAMBDA l : l # <<>>)
      margin == IF inked = <<>> THEN <<>>
                ELSE Margin([i \in 1..Len(inked) |-> LeadingBlanks(inked[i])])
      cut == [i \in 1..Len(lines) |->
                IF lines[i] = <<>> THEN <<>>
                ELSE SubSeq(lines[i], Len(margin) + 1, Len(lines[i]))]
  IN  join(NL, cut)

InstructionsHeader == <<"Instruções Adicionais Específicas:">>

ReferenceIntro ==
  <<"Utilize o seguinte conteúdo extraído dos arquivos fornecidos (.txt, .pdf) como principal referência [...] conforme as normas ABNT:">>

BeginReference == <<"--- CONTEÚDO DOS ARQUIVOS ---">>

EndReference == <<"--- FIM DO CONTEÚDO DOS ARQUIVOS ---">>

FallbackSentence ==
  <<"Utilize as melhores práticas e referências acadêmicas atualizadas para embasar suas conceituações e caracterizações, conforme as normas ABNT.">>

\* Lines 96-111: the f-string, one token for each run of fixed text.
PromptBase(topic_, section_titles) ==
  NL \o Indent \o <<"Atue como um professor experiente em Educação, especializado em ">>
     \o topic_ \o <<" para a avaliação na aprendizagem. Você deverá elaborar um texto objetivo e didático,">>
  \o NL \o Indent \o <<"que será utilizado como uma unidade de aprendizagem [...] na avaliação educacional.">>
  \o NL \o NL \o Indent \o <<"**IMPORTANTE:** Elabore o texto completo em **formato de prosa contínua** [...]">>
  \o NL \o NL \o Indent \o <<"Esse texto terá uma introdução [...] no processo avaliativo">>
  \o NL \o Indent \o <<"e se desenvolver depois em ">> \o <<ToString(Len(section_titles))>>
     \o <<" subseções com os seguintes subtítulos: ">> \o join(<<", ">>, section_titles)
  \o NL \o NL \o Indent \o <<"Para cada subseção você deve elaborar um texto [...] cite">>
  \o NL \o Indent \o <<"alguns exemplos de boas práticas [...] para o uso de tecnologias e">>
  \o NL \o Indent \o <<"suas especificidades na educação [...] para apoiar ">>
     \o join(<<", ">>, section_titles) \o <<",">>
  \o NL \o Indent \o <<"bem como a postura do docente [...] e possibilidades">>
  \o NL \o Indent \o <<"presentes em executar no mundo real [...] das três subseções.">>
  \o NL \o Indent \o <<"Cada subseção deverá ter no máximo duas páginas de Word. [...] conforme as normas mais">>
  \o NL \o Indent \o <<"atuais da ABNT.">>

\* Lines 129-134.
PromptClosing ==
  NL \o NL \o <<"Ao finalizar, elabore uma conclusão [...] o conteúdo principal de">>
  \o NL \o <<"cada subseção. Motive o estudante [...] com tecnologias.">>
  \o NL \o <<"Certifique-se de que todas as caracterizações [...] evitando listas ou tópicos.">>
  \o NL

\* A faulty variant (C6): the fallback sentence is appended in both cases.
ReferencePart_always_fallback(file_content) ==
  (IF Truthy(file_content)
   THEN NL \o NL \o ReferenceIntro \o NL \o NL \o BeginReference \o NL
           \o file_content.s \o NL \o EndReference \o NL
   ELSE <<>>)
  \o NL \o NL \o FallbackSentence

\* Lines 116-126: the reference block, or else the fallback sentence.
ReferencePart(file_content) ==
  IF Truthy(file_content)
  THEN NL \o NL \o ReferenceIntro \o NL \o NL \o BeginReference \o NL
          \o file_content.s \o NL \o EndReference \o NL
  ELSE NL \o NL \o FallbackSentence

\* Lines 113-114.
InstructionsPart(detailed_instructions_) ==
  IF detailed_instructions_ # <<>>
  THEN NL \o NL \o InstructionsHeader \o NL \o detailed_instructions_
  ELSE <<>>

generate_prompt(topic_, section_titles, detailed_instructions_, file_content) ==
  dedent(PromptBase(topic_, section_titles)
           \o InstructionsPart(detailed_instructions_)
           \o ReferencePart(file_content)
           \o PromptClosing)

----------------------------------------------------------------------------
(* extract_text_from_uploaded_file (lines 32-77) and the upload loop       *)
(* (lines 303-310).                                                        *)
(*                                                                         *)
(* An uploaded file is [name, type, ok, pages]: its name, its media type,  *)
(* whether its bytes can be read as that type (UTF-8 for text/plain, a PDF *)
(* structure for application/pdf), and the text of its pages, a text file  *)
(* being one page.                                                         *)

PDF == "application/pdf"

TXT == "text/plain"

RECURSIVE Flatten(_)
Flatten(texts) ==
  IF texts = <<>> THEN <<>> ELSE Head(texts) \o Flatten(Tail(texts))

extract_text_from_uploaded_file(uploaded_file) ==
  IF uploaded_file.type = PDF THEN
    IF uploaded_file.ok THEN Str(Flatten(uploaded_file.pages)) ELSE None
  ELSE IF uploaded_file.type = TXT THEN
    IF uploaded_file.ok THEN Str(uploaded_file.pages[1]) ELSE None
  ELSE None

\* Line 310: the block one file adds.
FileBlock(name, content) ==
  NL \o NL \o <<"--- Conteúdo de ", name, " ---">> \o NL \o content
     \o NL \o <<"--- Fim de ", name, " ---">>

\* A faulty variant (C7): the loop ends at the first file that yields nothing.
RECURSIVE upload_loop_break(_)
upload_loop_break(files) ==
  IF files = <<>> THEN <<>>
  ELSE LET content == extract_text_from_uploaded_file(Head(files))
       IN  IF Truthy(content)
           THEN FileBlock(Head(files).name, content.s) \o upload_loop_break(Tail(files))
           ELSE <<>>

\* Lines 303-310: combined_file_content for the files uploaded.
RECURSIVE upload_loop(_)
upload_loop(files) ==
  IF files = <<>> THEN <<>>
  ELSE LET content == extract_text_from_uploaded_file(Head(files))
       IN  (IF Truthy(content) THEN FileBlock(Head(files).name, content.s) ELSE <<>>)
             \o upload_loop(Tail(files))

----------------------------------------------------------------------------
(* The script body (lines 254-374): one run of it for each widget event.   *)

DefaultSections == 3

MinSections == 1

MaxSectionsInput == 10

Min(a, b) == IF a < b THEN a ELSE b

\* Lines 284-288: the titles collected from the first n fields.
RECURSIVE section_titles_of(_)
section_titles_of(fields) ==
  IF fields = <<>> THEN <<>>
  ELSE (IF Head(fields) # <<>> THEN <<strip(Head(fields))>> ELSE <<>>)
         \o section_titles_of(Tail(fields))

\* A faulty variant (C1): `not all(section_titles)` is left out.
valid_input_length_only(topic_, section_titles, n, files, combined) ==
  /\ topic_ # <<>>
  /\ ~(Len(section_titles) # n)
  /\ ~(files # <<>> /\ strip(combined.s) = <<>>)

\* Lines 324-333: valid_input after the three checks.
valid_input(topic_, section_titles, n, files, combined) ==
  /\ topic_ # <<>>
  /\ ~(Len(section_titles) # n \/ \E i \in 1..Len(section_titles) : section_titles[i] = <<>>)
  /\ ~(files # <<>> /\ strip(combined.s) = <<>>)

\* A faulty variant (C9): any answer that is not None is rendered.
renders_any_text(text) == ~text.none

\* Line 348: whether the answer is rendered as a document.
renders(text) == Truthy(text) /\ ~startswith(text.s, ErroMarker)

\* Lines 358-374: what the page shows at the end of a run.
download_offered == ~word_buffer.none

prompt_shown == Truthy(prompt_used)

text_displayed == Truthy(generated_text) /\ ~startswith(generated_text.s, ErroMarker)

\* The values of the widgets the model tries.
Keys == {None, Str(<<>>), Str(<<"key">>)}

Topics == {<<>>, <<"t">>}

TitleInputs == {<<>>, <<" ">>, <<"a">>}

FileKinds ==
  {[name |-> "a.txt", type |-> TXT, ok |-> TRUE, pages |-> << <<"x">> >>],
   [name |-> "b.pdf", type |-> PDF, ok |-> TRUE, pages |-> << <<"y">>, <<"z">> >>],
   [name |-> "c.pdf", type |-> PDF, ok |-> FALSE, pages |-> <<>>],
   [name |-> "d.txt", type |-> TXT, ok |-> FALSE, pages |-> <<>>],
   [name |-> "e.bin", type |-> "application/octet-stream", ok |-> TRUE, pages |-> << <<"w">> >>],
   [name |-> "f.txt", type |-> TXT, ok |-> TRUE, pages |-> << <<>> >>],
   [name |-> "g.pdf", type |-> PDF, ok |-> TRUE, pages |-> <<>>]}

FileNamed(n) == CHOOSE f \in FileKinds : f.name = n

\* The uploads tried in the whole script: none, one good file, one bad one.
AppUploads == {<<>>, <<FileNamed("a.txt")>>, <<FileNamed("c.pdf")>>}

\* Lines 254-266: without a key the script stops before drawing the form.
Started == Truthy(api_key)

Idle == pc = "idle" /\ Started

\* A run started by a widget other than the button: the button reads False.
\* The instructions text area is left empty here: its text goes nowhere
\* but into generate_prompt, whose inputs SpecPrompt ranges over.
Rerun ==
  /\ button' = FALSE
  /\ transport' = NoTransport
  /\ pc' = "idle"
  /\ UNCHANGED <<api_key, session, invoked, requests>>

EditTopic ==
  /\ Idle
  /\ \E t \in Topics \ {topic} : topic' = t
  /\ Rerun
  /\ UNCHANGED <<num_sections, section_fields, detailed_instructions,
                 uploaded_files, combined_file_content>>

\* Lines 279-286: the number input; fields beyond it are not drawn and a
\* field drawn for the first time is empty.
EditNumSections ==
  /\ Idle
  /\ \E n \in (MinSections..Min(MaxSectionsInput, MaxSections)) \ {num_sections} :
       /\ num_sections' = n
       /\ section_fields' =
            [i \in 1..n |-> IF i <= Len(section_fields) THEN section_fields[i] ELSE <<>>]
  /\ Rerun
  /\ UNCHANGED <<topic, detailed_instructions, uploaded_files, combined_file_content>>

EditSection ==
  /\ Idle
  /\ \E i \in 1..num_sections, t \in TitleInputs :
       /\ t # section_fields[i]
       /\ section_fields' = [section_fields EXCEPT ![i] = t]
  /\ Rerun
  /\ UNCHANGED <<topic, num_sections, detailed_instructions, uploaded_files,
                 combined_file_content>>

\* Lines 298-310: the files change and the loop runs over them.
Upload ==
  /\ Idle
  /\ \E files \in AppUploads \ {uploaded_files} :
       /\ uploaded_files' = files
       /\ combined_file_content' = Str(upload_loop(files))
  /\ Rerun
  /\ UNCHANGED <<topic, num_sections, section_fields, detailed_instructions>>

\* A faulty variant (C10): the session is reset before the inputs are validated.
ClickGenerate_reset_first ==
  /\ Idle
  /\ button' = TRUE
  /\ transport' = NoTransport
  /\ generated_text' = None
  /\ prompt_used' = None
  /\ word_buffer' = NoBuffer
  /\ invoked' = 0
  /\ requests' = <<>>
  /\ pc' = IF valid_input(topic, section_titles_of(section_fields), num_sections,
                          uploaded_files, combined_file_content)
           THEN "compose" ELSE "idle"
  /\ UNCHANGED <<api_key, widgets>>

\* Lines 323-338: the button is pressed; validation, then the reset.
ClickGenerate ==
  /\ Idle
  /\ button' = TRUE
  /\ transport' = NoTransport
  /\ IF valid_input(topic, section_titles_of(section_fields), num_sections,
                    uploaded_files, combined_file_content)
     THEN /\ generated_text' = None
          /\ prompt_used' = None
          /\ word_buffer' = NoBuffer
          /\ invoked' = 0
          /\ requests' = <<>>
          /\ pc' = "compose"
     ELSE /\ UNCHANGED <<session, invoked, requests>>
          /\ pc' = "idle"
  /\ UNCHANGED <<api_key, widgets>>

\* Lines 341-343.
Compose ==
  /\ pc = "compose"
  /\ prompt_used' = Str(generate_prompt(topic, section_titles_of(section_fields),
                                        detailed_instructions, combined_file_content))
  /\ pc' = "call"
  /\ UNCHANGED <<api_key, widgets, generated_text, word_buffer, button, invoked,
                 requests, transport>>

\* Line 345.
CallGemini ==
  /\ pc = "call"
  /\ \E outcome \in Transports :
       LET r == call_gemini(prompt_used, api_key, outcome)
       IN  /\ generated_text' = r.result
           /\ requests' = requests \o r.posted
           /\ transport' = IF r.posted = <<>> THEN NoTransport ELSE outcome
  /\ invoked' = invoked + 1
  /\ pc' = "render"
  /\ UNCHANGED <<api_key, widgets, prompt_used, word_buffer, button>>

\* Lines 348-355.
Render ==
  /\ pc = "render"
  /\ word_buffer' = IF renders(generated_text)
                    THEN create_word_doc(generated_text.s) ELSE word_buffer
  /\ pc' = "idle"
  /\ UNCHANGED <<api_key, widgets, generated_text, prompt_used, button, invoked,
                 requests, transport>>

Init ==
  /\ api_key \in Keys
  /\ topic = <<>>
  /\ num_sections = DefaultSections
  /\ section_fields = [i \in 1..DefaultSections |-> <<>>]
  /\ detailed_instructions = <<>>
  /\ uploaded_files = <<>>
  /\ combined_file_content = Str(<<>>)
  /\ generated_text = None
  /\ prompt_used = None
  /\ word_buffer = NoBuffer
  /\ pc = "idle"
  /\ button = FALSE
  /\ invoked = 0
  /\ requests = <<>>
  /\ transport = NoTransport

Next ==
  \/ EditTopic
  \/ EditNumSections
  \/ EditSection
  \/ Upload
  \/ ClickGenerate
  \/ Compose
  \/ CallGemini
  \/ Render

Spec == Init /\ [][Next]_vars

----------------------------------------------------------------------------
(* call_gemini on its own: any prompt, any credential, any outcome.        *)

Prompts == {Str(<<>>), Str(<<"p">>)}

InitClient ==
  /\ api_key \in Keys
  /\ prompt_used \in Prompts
  /\ topic = <<>>
  /\ num_sections = DefaultSections
  /\ section_fields = [i \in 1..DefaultSections |-> <<>>]
  /\ detailed_instructions = <<>>
  /\ uploaded_files = <<>>
  /\ combined_file_content = Str(<<>>)
  /\ generated_text = None
  /\ word_buffer = NoBuffer
  /\ pc = "call"
  /\ button = FALSE
  /\ invoked = 0
  /\ requests = <<>>
  /\ transport = NoTransport

NextClient == CallGemini

SpecClient == InitClient /\ [][NextClient]_vars

----------------------------------------------------------------------------
(* generate_prompt on its own: any topic, titles, instructions and file    *)
(* content (None is the parameter's default).                              *)

PromptTopics == {<<>>, <<"t">>}

PromptTitles == SeqUpTo({<<"a">>, <<"b">>}, MaxSections)

PromptInstructions == {<<>>, <<"i">>, <<" ">>}

PromptFileContents ==
  {None, Str(<<>>), Str(<<"r">>), Str(<<" ", "r", "\n", " ", "\n", " ", "s">>)}

InitPrompt ==
  /\ api_key = Str(<<"key">>)
  /\ topic \in PromptTopics
  /\ section_fields \in PromptTitles
  /\ num_sections = Len(section_fields)
  /\ detailed_instructions \in PromptInstructions
  /\ uploaded_files = <<>>
  /\ combined_file_content \in PromptFileContents
  /\ generated_text = None
  /\ prompt_used = None
  /\ word_buffer = NoBuffer
  /\ pc = "prompt"
  /\ button = FALSE
  /\ invoked = 0
  /\ requests = <<>>
  /\ transport = NoTransport

\* generate_prompt(topic, section_titles, detailed_instructions, file_content)
ComposePrompt ==
  /\ pc = "prompt"
  /\ prompt_used' = Str(generate_prompt(topic, section_fields, detailed_instructions,
                                        combined_file_content))
  /\ pc' = "prompted"
  /\ UNCHANGED <<api_key, widgets, generated_text, word_buffer, button, invoked,
                 requests, transport>>

NextPrompt == ComposePrompt

SpecPrompt == InitPrompt /\ [][NextPrompt]_vars

----------------------------------------------------------------------------
(* The upload loop on its own: any list of files.                          *)

InitFiles ==
  /\ api_key = Str(<<"key">>)
  /\ topic = <<>>
  /\ num_sections = DefaultSections
  /\ section_fields = [i \in 1..DefaultSections |-> <<>>]
  /\ detailed_instructions = <<>>
  /\ uploaded_files = <<>>
  /\ combined_file_content = Str(<<>>)
  /\ generated_text = None
  /\ prompt_used = None
  /\ word_buffer = NoBuffer
  /\ pc = "upload"
  /\ button = FALSE
  /\ invoked = 0
  /\ requests = <<>>
  /\ transport = NoTransport

UploadFiles ==
  /\ pc = "upload"
  /\ \E files \in SeqUpTo(FileKinds, MaxFiles) :
       /\ uploaded_files' = files
       /\ combined_file_content' = Str(upload_loop(files))
  /\ pc' = "uploaded"
  /\ UNCHANGED <<api_key, topic, num_sections, section_fields, detailed_instructions,
                 session, button, invoked, requests, transport>>

NextFiles == UploadFiles

SpecFiles == InitFiles /\ [][NextFiles]_vars

----------------------------------------------------------------------------
(* create_word_doc on its own: any text.                                   *)

Example == <<"Para1", "\n", "\n", "Para2", "\n", "\n", "\n", "\n", "Para3">>

Texts == SeqUpTo({"a", "b", " ", "\n"}, MaxText) \cup {Example}

InitDoc ==
  /\ api_key = Str(<<"key">>)
  /\ topic = <<>>
  /\ num_sections = DefaultSections
  /\ section_fields = [i \in 1..DefaultSections |-> <<>>]
  /\ detailed_instructions = <<>>
  /\ uploaded_files = <<>>
  /\ combined_file_content = Str(<<>>)
  /\ generated_text \in {Str(t) : t \in Texts}
  /\ prompt_used = None
  /\ word_buffer = NoBuffer
  /\ pc = "document"
  /\ button = FALSE
  /\ invoked = 0
  /\ requests = <<>>
  /\ transport = NoTransport

RenderDocument ==
  /\ pc = "document"
  /\ word_buffer' = create_word_doc(generated_text.s)
  /\ pc' = "rendered"
  /\ UNCHANGED <<api_key, widgets, generated_text, prompt_used, button, invoked,
                 requests, transport>>

NextDoc == RenderDocument

SpecDoc == InitDoc /\ [][NextDoc]_vars

----------------------------------------------------------------------------
(* The claims.                                                             *)

\* A field is blank when it is empty or holds whitespace only.
Blank(text) == \A i \in 1..Len(text) : IsSpace(text[i])

\* The inputs the validation is said to reject.
InvalidInputs ==
  \/ topic = <<>>
  \/ \E i \in 1..num_sections : Blank(section_fields[i])
  \/ uploaded_files # <<>> /\ Blank(combined_file_content.s)

AllUnset == generated_text = None /\ prompt_used = None /\ word_buffer = NoBuffer

\* C1: from a state whose inputs are invalid (the topic empty, one of the
\* num_sections title fields blank, or files uploaded and the combined text
\* blank) no step, the trigger of generate included, calls call_gemini or
\* posts a request, and the run of the script ends there.
C1_ValidationGate ==
  [][InvalidInputs => (invoked' = invoked /\ requests' = requests /\ pc' = "idle")]_vars

\* C1 witness: generate was triggered with a whitespace-only title, the
\* topic and the other titles filled in, and nothing was sent.
C1_Witness ==
  /\ pc = "idle" /\ button
  /\ topic # <<>>
  /\ \E i \in 1..num_sections :
       /\ section_fields[i] = <<" ">>
       /\ \A j \in (1..num_sections) \ {i} : section_fields[j] = <<"a">>
  /\ uploaded_files = <<>>
  /\ invoked = 0 /\ requests = <<>>

\* The first candidate has no parts and a finish reason other than STOP, or
\* there is no candidate and the body has a top-level error object.
SemanticFailure(t) ==
  /\ t.kind = "ok"
  /\ \/ /\ t.json.candidates # <<>>
        /\ t.json.candidates[1].parts = <<>>
        /\ Truthy(t.json.candidates[1].finishReason)
        /\ t.json.candidates[1].finishReason.s # STOP
     \/ /\ t.json.candidates = <<>>
        /\ t.json.error.present

\* C2: after a run whose response was a semantic failure, the text returned
\* begins with "Erro:", no document is offered for download and the text is
\* not displayed as generated content.
C2_MarkerDiscipline ==
  (pc = "idle" /\ SemanticFailure(transport)) =>
     /\ startswith(generated_text.s, ErroMarker)
     /\ ~download_offered
     /\ ~text_displayed

FirstCandidate == transport.json.candidates[1]

Answered == pc = "render" /\ transport.kind = "ok" /\ transport.json.candidates # <<>>

\* C3, as amended: the first candidate alone decides.  With a first part
\* that carries a text, the result is exactly that text; with a first part
\* that carries none, it is the no-text-found placeholder; with no parts
\* and a finish reason that is present, not empty and not "STOP", it begins
\* with "Erro:" and names the reason; with no parts and a finish reason
\* absent, empty or "STOP", it is the unexpected-empty-structure text.
C3_FirstCandidateDecides ==
  Answered =>
    LET parts == FirstCandidate.parts
        finish_reason == FirstCandidate.finishReason
        quiet == finish_reason \in {None, Str(<<>>), Str(STOP)}
    IN  /\ (parts # <<>> /\ parts[1].has_text) => generated_text = Str(parts[1].text)
        /\ (parts # <<>> /\ ~parts[1].has_text) => generated_text = Str(NoTextFound)
        /\ (parts = <<>> /\ ~quiet) =>
              /\ startswith(generated_text.s, ErroMarker)
              /\ Contains(generated_text.s, finish_reason.s)
        /\ (parts = <<>> /\ quiet) => generated_text = Str(UnexpectedStructure)

\* C3 witness: two candidates came back and the first part of the first
\* one was returned as it is.
C3_Witness ==
  /\ Answered
  /\ Len(transport.json.candidates) = 2
  /\ Len(FirstCandidate.parts) = 2
  /\ FirstCandidate.parts[1] = [has_text |-> TRUE, text |-> <<"Olá">>]
  /\ generated_text = Str(<<"Olá">>)

\* C3 as first stated: with at least one part the result is the text of the
\* first part; with no parts and a finish reason other than "STOP" it is an
\* "Erro:" text naming the reason; with no parts and the finish reason
\* absent or "STOP" it is the unexpected-empty-structure text.
C3_AsStated ==
  Answered =>
    LET parts == FirstCandidate.parts
        finish_reason == FirstCandidate.finishReason
    IN  /\ parts # <<>> => generated_text = Str(parts[1].text)
        /\ (parts = <<>> /\ finish_reason \notin {None, Str(STOP)}) =>
              /\ startswith(generated_text.s, ErroMarker)
              /\ Contains(generated_text.s, finish_reason.s)
        /\ (parts = <<>> /\ finish_reason \in {None, Str(STOP)}) =>
              generated_text = Str(UnexpectedStructure)

\* C4: a call with an absent or empty credential returns None and posts no
\* request, whatever the prompt.
C4_MissingCredential ==
  (pc = "render" /\ ~Truthy(api_key)) =>
     /\ generated_text = None
     /\ requests = <<>>
     /\ transport = NoTransport

\* C4 witness: call_gemini has returned from a call with an empty key and a
\* prompt that is not empty.
C4_Witness ==
  /\ pc = "render" /\ invoked = 1
  /\ api_key = Str(<<>>)
  /\ prompt_used = Str(<<"p">>)
  /\ generated_text = None

TransportFailed == transport.kind \in {"timeout", "connection_error", "http_error"}

\* C5: a request that times out or fails returns None, and one request at
\* most is posted, by one call of call_gemini at most, for each trigger.
C5_SingleAttempt ==
  /\ invoked <= 1
  /\ Len(requests) <= invoked
  /\ TransportFailed => (generated_text = None /\ ~download_offered /\ Len(requests) = 1)

\* C5 witness: the run is over, its one request timed out.
C5_Witness ==
  /\ pc = "idle" /\ button
  /\ transport.kind = "timeout"
  /\ Len(requests) = 1
  /\ generated_text = None

Kth(S, k) == CHOOSE x \in S : Cardinality({y \in S : y < x}) = k - 1

\* A file yields text: its kind is supported, it can be read, and the text
\* read is not empty.
Yields(f) == f.type \in {PDF, TXT} /\ f.ok /\ Flatten(f.pages) # <<>>

\* C7: the combined text is one block for each file that yields text, in
\* upload order, with a header and a footer naming the file around its
\* text; the other files add nothing and stop nothing.
C7_IndependentExtraction ==
  pc = "uploaded" =>
    LET text == combined_file_content.s
        yielding == SelectSeq(uploaded_files, Yields)
        headers == {i \in 1..Len(text) : text[i] = "--- Conteúdo de "}
        footers == {i \in 1..Len(text) : text[i] = "--- Fim de "}
    IN  /\ Cardinality(headers) = Len(yielding)
        /\ Cardinality(footers) = Len(yielding)
        /\ \A k \in 1..Len(yielding) :
             LET h == Kth(headers, k)
                 f == Kth(footers, k)
             IN  /\ h < f
                 /\ k < Len(yielding) => f < Kth(headers, k + 1)
                 /\ text[h + 1] = yielding[k].name
                 /\ text[f + 1] = yielding[k].name
                 /\ SubSeq(text, h + 4, f - 2) = Flatten(yielding[k].pages)
        /\ yielding = <<>> => text = <<>>

\* C7 witness: a PDF that cannot be parsed, then a file of an unsupported
\* kind, then a text file whose block is the whole combined text.
C7_Witness ==
  /\ pc = "uploaded"
  /\ Len(uploaded_files) = 3
  /\ uploaded_files[1].name = "c.pdf"
  /\ uploaded_files[2].name = "e.bin"
  /\ uploaded_files[3].name = "a.txt"
  /\ combined_file_content.s = FileBlock("a.txt", <<"x">>)

\* The paragraphs of a text, told from its characters: a paragraph runs
\* from one character that is not whitespace to another, with no "\n\n"
\* in between, and is cut off from its neighbours by a "\n\n".
Paragraphs(text) ==
  LET ink == {i \in 1..Len(text) : ~IsSpace(text[i])}
      Broken(i, j) == \E k \in i..(j - 1) : text[k] = "\n" /\ text[k + 1] = "\n"
      starts == {i \in ink : \A j \in ink : j < i => Broken(j, i)}
      ends == {i \in ink : \A j \in ink : j > i => Broken(i, j)}
  IN  [k \in 1..Cardinality(starts) |-> SubSeq(text, Kth(starts, k), Kth(ends, k))]

\* C8: the document holds the pieces between double newlines, trimmed, the
\* empty ones dropped, in order; a text of whitespace only gives a document
\* with no paragraph.
C8_ParagraphSplitting ==
  pc = "rendered" =>
    /\ ~word_buffer.none
    /\ word_buffer.paragraphs = Paragraphs(generated_text.s)
    /\ Blank(generated_text.s) => word_buffer.paragraphs = <<>>
    /\ generated_text.s = Example =>
         word_buffer.paragraphs = << <<"Para1">>, <<"Para2">>, <<"Para3">> >>

\* C8 witness: a text that opens with a blank and has three newlines
\* between its two paragraphs.
C8_Witness ==
  /\ pc = "rendered"
  /\ generated_text.s = <<" ", "a", "\n", "\n", "\n", "b">>
  /\ word_buffer.paragraphs = << <<"a">>, <<"b">> >>

\* C9: while a document is offered for download, generated_text is a text
\* that is not empty and does not begin with "Erro:", and prompt_used is
\* the prompt of the one request posted since the reset; a cycle whose call
\* returned None or an "Erro:" text ends with no document.
C9_DownloadMeansSuccess ==
  /\ download_offered =>
       /\ Truthy(generated_text)
       /\ ~startswith(generated_text.s, ErroMarker)
       /\ ~prompt_used.none
       /\ requests = <<Request(prompt_used, api_key)>>
  /\ (pc = "idle" /\ invoked = 1
        /\ (generated_text = None \/ startswith(generated_text.s, ErroMarker)))
       => ~download_offered

\* C9 witness: a document is still on offer after the form was changed.
C9_Witness ==
  /\ pc = "idle" /\ ~button
  /\ download_offered
  /\ topic = <<>>
  /\ generated_text = Str(<<"Olá">>)

\* C10: a trigger of generate with invalid inputs leaves generated_text,
\* prompt_used and word_buffer as they were and ends the run; a trigger
\* with valid inputs unsets all three, and nothing is composed or sent
\* before that.
C10_Frame ==
  [][(pc = "idle" /\ button') =>
       IF InvalidInputs
       THEN UNCHANGED session /\ pc' = "idle"
       ELSE AllUnset' /\ pc' = "compose" /\ invoked' = 0 /\ requests' = <<>>]_vars

\* C10 witness: generate was triggered with an empty topic while the
\* document of an earlier cycle is on offer.
C10_Witness ==
  /\ pc = "idle" /\ button
  /\ topic = <<>>
  /\ download_offered
  /\ Truthy(prompt_used)

====
